---- MODULE Spec2Model ----
(***************************************************************************)
(* Model of sentinelone_example.py: fetch_paginated_api_data (the cursor   *)
(* following page fetcher) and extract_alerts (the per-site orchestration  *)
(* loop).  The HTTP server and the interrupt signal are the environment.   *)
(* Logging and the rich Live/Table/Progress rendering change no program    *)
(* state that is read back and are left out.  BASE_URL and API_TOKEN are   *)
(* taken to be configured, so that session.get reaches a server.           *)
(*                                                                         *)
(* Encodings.  A site id is an integer: EmptyId stands for the string "",  *)
(* NoKey for a mapping without the "siteIds" key, a positive number for a  *)
(* distinct non-empty id.  A cursor is a string: Absent stands for a       *)
(* missing key, None for Python's None / JSON null, "" for the empty       *)
(* string.  An item is the pair <<r, k>>: the k-th item of the page served*)
(* in answer to the r-th request.                                          *)
(***************************************************************************)
EXTENDS Integers, Sequences, FiniteSets, TLC

\* ---- bounds of the exploration ----
MaxItems == 2       \* a page is empty or carries MaxItems items
MaxPages == 2       \* an alerts server ends a cursor chain at this page
MaxFetchPages == 3  \* a server of any kind ends a cursor chain at this page
MaxRequests == 5    \* no call is followed past this many requests
NWild == 2          \* the last NWild sites of the window get arbitrary answers
MaxBeyond == 2      \* the longest site mapping has MaxBeyond sites past the window

\* ---- constants of the program ----
WindowStart == 5
WindowEnd == 40
Limit == 1000

EmptyId == 0
NoKey == -1
Absent == "<absent>"
None == "<None>"
Cursors == {"c1", "c2"}
AlertsEndpoint == "cloud-detection/alerts"
SitesEndpoint == "sites"
SitesKey == <<0, 0>>

Min(a, b) == IF a < b THEN a ELSE b

VARIABLES
  \* extract_alerts
  site_map, pc, idx, sites_to_process, results, progress_data, site_data,
  run_ret, run_err,
  \* fetch_paginated_api_data
  fpc, params, endpoint, page_callback, all_data, cursor, page_count,
  current_params, aliased, fret, ferr,
  \* environment and history
  wild, server, signalled, intAt, reqLog, reqBase, args, chain, accPages,
  cbLog, fetched

runVars == <<site_map, pc, idx, sites_to_process, results, progress_data,
             site_data, run_ret, run_err>>
fetchVars == <<fpc, params, endpoint, page_callback, all_data, cursor,
               page_count, current_params, aliased, fret, ferr>>
histVars == <<wild, server, signalled, intAt, reqLog, reqBase, args, chain,
              accPages, cbLog, fetched>>
vars == <<runVars, fetchVars, histVars>>

\* ---- Python helpers ----

\* bool(cursor): None and "" are falsy
TruthyUnlessNone(c) == c \notin {None, Absent}
Truthy(c) == c \notin {None, "", Absent}

\* seq[a:b] for 0 <= a, 0 <= b
PySlice(s, a, b) == SubSeq(s, Min(a, Len(s)) + 1, Min(b, Len(s)))

\* list(site_map.items())[5:40]
SitesToProcessOffByOne(m) == PySlice(m, WindowStart - 1, WindowEnd + 1)
SitesToProcess(m) == PySlice(m, WindowStart, WindowEnd)

\* all_data.extend(data_chunk), results.extend(site_data)
ExtendReplace(list, chunk) == chunk
ExtendPrepend(list, chunk) == chunk \o list
Extend(list, chunk) == list \o chunk

\* page_count += 1
NextPageCountStuck(n) == 1
NextPageCount(n) == n + 1

\* `except ValueError` matches ValueError and its subclasses; the
\* JSONDecodeError raised by response.json() is one of them
CaughtEverything(e) == TRUE
CaughtNothing(e) == FALSE
IsValueError(e) == e \in {"ValueError", "JSONDecodeError"}

\* requests.exceptions.RequestException raised for a request that failed in
\* transport (session.get) or came back with a non-success status
\* (raise_for_status)
TransportError == {"ConnectionError", "HTTPError"}

\* ---- the server ----

Items(r, n) == [k \in 1..n |-> <<r, k>>]

PagVariants ==
  {[pagination |-> "absent", nextCursor |-> Absent],
   [pagination |-> "null", nextCursor |-> Absent]}
  \cup [pagination : {"object"}, nextCursor : {Absent, None, ""} \cup Cursors]

ErrorKinds == {"transport", "status", "badjson", "nodata"}

\* An alerts server answers in the list shape and hands out its cursors in
\* turn; a server of any kind answers in either shape with any cursor; a
\* cycling server is an alerts server whose chain never ends, so that it
\* hands out again a cursor it handed out before.
Shapes(srv) == IF srv = "any" THEN {"list", "wrapped"} ELSE {"list"}
ChainEnd(srv) == IF srv = "any" THEN MaxFetchPages ELSE MaxPages
Tokens(srv, k) ==
  IF srv = "any" THEN Cursors
  ELSE IF k % 2 = 1 THEN {"c1"} ELSE {"c2"}

\* the answers to the k-th request of a call; the last page of a chain
\* supplies no cursor
Responses(srv, k, final) ==
  [kind : ErrorKinds, shape : {"list"}, n : {0},
   pagination : {"absent"}, nextCursor : {Absent}]
  \cup {[kind |-> "ok", shape |-> sh, n |-> n,
         pagination |-> p.pagination, nextCursor |-> p.nextCursor] :
          sh \in Shapes(srv), n \in {0, MaxItems},
          p \in {q \in PagVariants :
                   /\ final => q.nextCursor \notin Cursors
                   /\ q.nextCursor \in Cursors =>
                        q.nextCursor \in Tokens(srv, k)}}

DefaultResponse ==
  [kind |-> "ok", shape |-> "list", n |-> 1,
   pagination |-> "object", nextCursor |-> None]

\* the answers of a cycling server to the k-th request of a call: a page
\* and the next cursor, never an error and never the end of the chain
CycleResponses(k) ==
  {r \in Responses("cycle", k, FALSE) :
     r.kind = "ok" /\ r.pagination = "object" /\ r.nextCursor \in Cursors}

\* the answers the server may give to the next request of the current call
ServerAnswers ==
  LET k == Len(reqLog) - reqBase + 1
  IN IF params.siteIds \notin wild THEN {DefaultResponse}
     ELSE IF server = "cycle" THEN CycleResponses(k)
     ELSE Responses(server, k, k >= ChainEnd(server))

\* result.get("pagination", {}).get("nextCursor")
NextCursorUnseen(r) ==
  LET c == IF r.pagination = "object" /\ r.nextCursor # Absent
           THEN r.nextCursor ELSE None
  IN IF c \in {reqLog[i].cursor : i \in (reqBase + 1)..Len(reqLog)}
     THEN None ELSE c
NextCursorOf(r) ==
  IF r.pagination = "object" /\ r.nextCursor # Absent THEN r.nextCursor
  ELSE None

\* result["data"]["sites"] if is_sites else result["data"]: indexing a list
\* with "sites" raises TypeError
UnwrapRaises(r, is_sites) == is_sites /\ r.shape = "list"

\* the same expression as consumed by list.extend: a dict iterates over its
\* keys, so a {"sites": [...]} object read as `data` yields the key alone
DataChunkByShape(r, is_sites, reqNo) == Items(reqNo, r.n)
DataChunk(r, is_sites, reqNo) ==
  IF is_sites \/ r.shape = "list" THEN Items(reqNo, r.n) ELSE <<SitesKey>>

\* ---- fetch_paginated_api_data ----

\* lines 48-54: the guard on the site id, then the locals
FetchEnterNoCheck ==
  /\ fpc = "entry"
  /\ fpc' = "request"
  /\ all_data' = <<>> /\ cursor' = None /\ page_count' = 0
  /\ UNCHANGED <<runVars, params, endpoint, page_callback, current_params,
                 aliased, fret, ferr, histVars>>
FetchEnter ==
  /\ fpc = "entry"
  /\ IF params.siteIds = NoKey
     THEN /\ fpc' = "raised" /\ ferr' = "KeyError"
          /\ UNCHANGED <<all_data, cursor, page_count>>
     ELSE IF params.siteIds = EmptyId
     THEN /\ fpc' = "raised" /\ ferr' = "ValueError"
          /\ UNCHANGED <<all_data, cursor, page_count>>
     ELSE /\ fpc' = "request" /\ ferr' = ferr
          /\ all_data' = <<>> /\ cursor' = None /\ page_count' = 0
  /\ UNCHANGED <<runVars, params, endpoint, page_callback, current_params,
                 aliased, fret, histVars>>

\* the request as the server sees it, with what the server answered: the
\* kind of answer and the cursor supplied
Sent(cp, r) ==
  [siteIds |-> cp.siteIds, limit |-> cp.limit, cursor |-> cp.cursor,
   endpoint |-> endpoint, kind |-> r.kind,
   next |-> IF r.kind = "ok" /\ NextCursorOf(r) \in Cursors
            THEN NextCursorOf(r) ELSE None]

\* line 57: {**params, "cursor": cursor} if cursor else params
CurrentParamsStale(p, c) ==
  IF Truthy(c) /\ p.cursor = Absent THEN [p EXCEPT !.cursor = c] ELSE p
CurrentParams(p, c) == IF Truthy(c) THEN [p EXCEPT !.cursor = c] ELSE p

\* lines 74-76: `except RequestException` logs the error and raises it again
ExceptRequestExceptionSwallow(e) == "exit"
ExceptRequestException(e) == "raised"

\* lines 166-170: the closure handed to fetch as page_callback; site is the
\* loop variable site_id of extract_alerts
UpdatePageCountEverywhere(pd, site, pages) ==
  [x \in DOMAIN pd |-> [pd[x] EXCEPT !.pages = pages]]
UpdatePageCount(pd, site, pages) == [pd EXCEPT ![site].pages = pages]

\* lines 56-76, one turn of the loop: build the parameters, GET,
\* raise_for_status, parse the body, unwrap and append the items, count the
\* page, call the callback, read the next cursor
FetchPage ==
  /\ fpc = "request"
  /\ Len(reqLog) - reqBase < MaxRequests
  /\ \E r \in ServerAnswers :
       LET cp == CurrentParams(params, cursor)
           isalias == ~Truthy(cursor)
           reqNo == Len(reqLog) + 1
           is_sites == endpoint = SitesEndpoint
           e == CASE r.kind = "transport" -> "ConnectionError"
                  [] r.kind = "status" -> "HTTPError"
                  [] r.kind = "badjson" -> "JSONDecodeError"
                  [] r.kind = "nodata" -> "KeyError"
                  [] UnwrapRaises(r, is_sites) -> "TypeError"
                  [] OTHER -> "None"
       IN /\ reqLog' = Append(reqLog, Sent(cp, r))
          /\ aliased' = isalias
          /\ chain' = Append(chain, r)
          /\ IF e # "None"
             THEN /\ fpc' = IF e \in TransportError
                            THEN ExceptRequestException(e) ELSE "raised"
                  /\ ferr' = e
                  /\ current_params' = cp
                  /\ UNCHANGED <<all_data, page_count, accPages, cbLog,
                                 progress_data, cursor, params>>
             ELSE /\ all_data' = Extend(all_data, DataChunk(r, is_sites, reqNo))
                  /\ page_count' = NextPageCount(page_count)
                  /\ accPages' = accPages + 1
                  /\ cbLog' = IF page_callback # "None"
                              THEN Append(cbLog, [arg |-> page_count',
                                                  acc |-> accPages'])
                              ELSE cbLog
                  /\ progress_data' =
                       IF page_callback = "update_page_count"
                       THEN UpdatePageCount(progress_data,
                                            sites_to_process[idx].site_id,
                                            page_count')
                       ELSE progress_data
                  /\ IF r.pagination = "null"
                     THEN /\ fpc' = "raised" /\ ferr' = "AttributeError"
                          /\ current_params' = cp
                          /\ UNCHANGED <<cursor, params>>
                     ELSE /\ cursor' = NextCursorOf(r)
                          /\ ferr' = ferr
                          /\ IF Truthy(cursor')
                             THEN /\ fpc' = "request"
                                  /\ current_params' =
                                       [cp EXCEPT !.cursor = cursor']
                                  /\ params' =
                                       IF isalias
                                       THEN [params EXCEPT !.cursor = cursor']
                                       ELSE params
                             ELSE /\ fpc' = "exit"
                                  /\ current_params' = cp
                                  /\ params' = params
  /\ UNCHANGED <<site_map, pc, idx, sites_to_process, results, site_data,
                 run_ret, run_err, endpoint, page_callback, fret,
                 wild, server, signalled, intAt, reqBase, args, fetched>>

\* lines 78-81
FetchReturn ==
  /\ fpc = "exit"
  /\ fpc' = "returned"
  /\ fret' = all_data
  /\ UNCHANGED <<runVars, params, endpoint, page_callback, all_data, cursor,
                 page_count, current_params, aliased, ferr, histVars>>

\* ---- extract_alerts ----

NoParams == [siteIds |-> NoKey, limit |-> Limit, cursor |-> Absent]

\* lines 134-145
Setup ==
  /\ pc = "setup"
  /\ pc' = "loop"
  /\ results' = <<>>
  /\ progress_data' = <<>>
  /\ sites_to_process' = SitesToProcess(site_map)
  /\ idx' = 1
  /\ UNCHANGED <<site_map, site_data, run_ret, run_err, fetchVars, histVars>>

\* lines 154-164: the next site of the window gets its status record
BeginSite ==
  /\ pc = "loop"
  /\ idx <= Len(sites_to_process)
  /\ pc' = "call"
  /\ LET s == sites_to_process[idx]
         rec == [domain_name |-> s.domain_name, total_records |-> 0,
                 pages |-> 0, status |-> "Running"]
     IN progress_data' =
          [x \in DOMAIN progress_data \cup {s.site_id} |->
             IF x = s.site_id THEN rec ELSE progress_data[x]]
  /\ UNCHANGED <<site_map, idx, sites_to_process, results, site_data,
                 run_ret, run_err, fetchVars, histVars>>

\* line 154 with the window exhausted: the loop and the `with` block end
LoopExit ==
  /\ pc = "loop"
  /\ idx > Len(sites_to_process)
  /\ pc' = "return"
  /\ UNCHANGED <<site_map, idx, sites_to_process, results, progress_data,
                 site_data, run_ret, run_err, fetchVars, histVars>>

\* line 174: the parameter mapping of a call is a fresh dict literal; prev
\* is the mapping of the call before
CallParamsShared(prev, site) == [prev EXCEPT !.siteIds = site]
CallParams(prev, site) == [siteIds |-> site, limit |-> Limit, cursor |-> Absent]

\* lines 173-177: the call
CallFetch ==
  /\ pc = "call"
  /\ pc' = "infetch"
  /\ fpc' = "entry"
  /\ params' = CallParams(params, sites_to_process[idx].site_id)
  /\ args' = params'
  /\ endpoint' = AlertsEndpoint
  /\ page_callback' = "update_page_count"
  /\ reqBase' = Len(reqLog)
  /\ UNCHANGED <<site_map, idx, sites_to_process, results,
                 progress_data, site_data, run_ret, run_err, all_data, cursor, page_count, current_params,
                 aliased, fret, ferr, wild, server, signalled, intAt, reqLog,
                 chain, accPages, cbLog, fetched>>

\* the status record of the site being processed, with some fields replaced
SetRecord(pd, site, total, status) ==
  [pd EXCEPT ![site].total_records = total, ![site].status = status]

\* the call of fetch is over: its frame is gone, and so is the record of
\* what the server answered to it; the mapping the caller passed is left as
\* the call left it
FetchOver ==
  /\ chain' = <<>> /\ accPages' = 0 /\ cbLog' = <<>>
  /\ fpc' = "idle"
  /\ params' = params /\ current_params' = NoParams /\ aliased' = FALSE
  /\ all_data' = <<>> /\ cursor' = None /\ page_count' = 0
  /\ fret' = <<>> /\ ferr' = "None"
  /\ UNCHANGED <<endpoint, page_callback>>

\* lines 173 and 178: fetch returned; keep its list and append it to the
\* aggregate
ExtendResults ==
  /\ pc = "infetch" /\ fpc = "returned"
  /\ pc' = "record"
  /\ site_data' = fret
  /\ results' = Extend(results, fret)
  /\ LET site == sites_to_process[idx].site_id
     IN fetched' = [x \in DOMAIN fetched \cup {site} |->
                      IF x = site THEN fret ELSE fetched[x]]
  /\ FetchOver
  /\ UNCHANGED <<site_map, idx, sites_to_process, progress_data, run_ret,
                 run_err, wild, server, signalled, intAt, reqLog, reqBase, args>>

\* lines 179-182
RecordCompletedAggregate ==
  /\ pc = "record"
  /\ pc' = "advance"
  /\ progress_data' = SetRecord(progress_data, sites_to_process[idx].site_id,
                                Len(results), "Completed")
  /\ UNCHANGED <<site_map, idx, sites_to_process, results, site_data, run_ret,
                 run_err, fetchVars, histVars>>
RecordCompleted ==
  /\ pc = "record"
  /\ pc' = "advance"
  /\ progress_data' = SetRecord(progress_data, sites_to_process[idx].site_id,
                                Len(site_data), "Completed")
  /\ UNCHANGED <<site_map, idx, sites_to_process, results, site_data, run_ret,
                 run_err, fetchVars, histVars>>

\* lines 183-190: fetch raised something `except ValueError` matches
SiteFailed ==
  /\ pc = "infetch" /\ fpc = "raised" /\ IsValueError(ferr)
  /\ pc' = "advance"
  /\ progress_data' = SetRecord(progress_data, sites_to_process[idx].site_id,
                                0, "Failed")
  /\ FetchOver
  /\ UNCHANGED <<site_map, idx, sites_to_process, results, site_data, run_ret,
                 run_err, wild, server, signalled, intAt, reqLog,
                 reqBase, args, fetched>>

\* fetch raised anything else: no handler in extract_alerts matches, the
\* exception leaves the loop, the `with` block and the function
Propagate ==
  /\ pc = "infetch" /\ fpc = "raised" /\ ~IsValueError(ferr)
  /\ pc' = "done"
  /\ run_err' = ferr
  /\ FetchOver
  /\ UNCHANGED <<site_map, idx, sites_to_process, results, progress_data,
                 site_data, run_ret, wild, server, signalled, intAt, reqLog,
                 reqBase, args, fetched>>

\* lines 192-196, then back to line 154
AdvanceTwo ==
  /\ pc = "advance"
  /\ pc' = "loop"
  /\ idx' = idx + 2
  /\ UNCHANGED <<site_map, sites_to_process, results, progress_data, site_data,
                 run_ret, run_err, fetchVars, histVars>>
Advance ==
  /\ pc = "advance"
  /\ pc' = "loop"
  /\ idx' = idx + 1
  /\ UNCHANGED <<site_map, sites_to_process, results, progress_data, site_data,
                 run_ret, run_err, fetchVars, histVars>>

\* the statements inside the `try` of lines 146-197
InTry == {"loop", "call", "infetch", "record", "advance"}

\* lines 198-205: KeyboardInterrupt raised at a statement boundary inside the
\* `try` (also one inside fetch, which has no handler for it) is caught and
\* the aggregate is returned; the frame of a running fetch is dropped.  One
\* signal is delivered per run, and none while another exception is being
\* unwound.
InterruptRaises ==
  /\ pc \in InTry /\ fpc # "raised" /\ ~signalled
  /\ signalled' = TRUE
  /\ intAt' = [pc |-> pc, idx |-> idx, fpc |-> fpc]
  /\ pc' = "done"
  /\ run_err' = "KeyboardInterrupt"
  /\ FetchOver
  /\ UNCHANGED <<site_map, idx, sites_to_process, results, progress_data,
                 site_data, run_ret, wild, server, reqLog, reqBase, args, fetched>>
InterruptKeepsPartial ==
  /\ pc \in InTry /\ fpc # "raised" /\ ~signalled
  /\ signalled' = TRUE
  /\ intAt' = [pc |-> pc, idx |-> idx, fpc |-> fpc]
  /\ pc' = "done"
  /\ run_ret' = results \o all_data
  /\ FetchOver
  /\ UNCHANGED <<site_map, idx, sites_to_process, results, progress_data,
                 site_data, run_err, wild, server, reqLog, reqBase, args, fetched>>
Interrupt ==
  /\ pc \in InTry /\ fpc # "raised" /\ ~signalled
  /\ signalled' = TRUE
  /\ intAt' = [pc |-> pc, idx |-> idx, fpc |-> fpc]
  /\ pc' = "done"
  /\ run_ret' = results
  /\ FetchOver
  /\ UNCHANGED <<site_map, idx, sites_to_process, results, progress_data,
                 site_data, run_err, wild, server, reqLog, reqBase, args, fetched>>

\* KeyboardInterrupt raised outside the `try` (lines 134-145, line 205) has no
\* handler
InterruptOutside ==
  /\ pc \in {"setup", "return"} /\ ~signalled
  /\ signalled' = TRUE
  /\ intAt' = [pc |-> pc, idx |-> idx, fpc |-> fpc]
  /\ pc' = "done"
  /\ run_err' = "KeyboardInterrupt"
  /\ UNCHANGED <<site_map, idx, sites_to_process, results, progress_data,
                 site_data, run_ret, fetchVars, wild, server, reqLog, reqBase, args,
                 chain, accPages, cbLog, fetched>>

\* line 205 after the loop ran to its end
Return ==
  /\ pc = "return"
  /\ pc' = "done"
  /\ run_ret' = results
  /\ UNCHANGED <<site_map, idx, sites_to_process, results, progress_data,
                 site_data, run_err, fetchVars, histVars>>

\* ---- initial states ----

NoIntr == [pc |-> "none", idx |-> 0, fpc |-> "none"]

FetchIdle ==
  /\ fpc = "idle"
  /\ params = NoParams /\ current_params = NoParams /\ aliased = FALSE
  /\ endpoint = AlertsEndpoint /\ page_callback = "None"
  /\ all_data = <<>> /\ cursor = None /\ page_count = 0
  /\ fret = <<>> /\ ferr = "None"

HistEmpty ==
  /\ signalled = FALSE /\ intAt = NoIntr
  /\ reqLog = <<>> /\ reqBase = 0 /\ chain = <<>> /\ accPages = 0
  /\ cbLog = <<>> /\ fetched = <<>>

\* the lengths of the site mappings explored
MapLens ==
  {0, WindowStart - 1, WindowStart + 1, WindowStart + 3, WindowEnd + MaxBeyond}

\* the 0-based positions of the window in a mapping of n sites
Window(n) == WindowStart .. (Min(n, WindowEnd) - 1)

\* the positions whose site the server answers arbitrarily
WildPositions(n) == {p \in Window(n) : p >= Min(n, WindowEnd) - NWild}

\* the positions at which the empty site id may sit (-1: nowhere)
EmptyPositions(n) ==
  {-1} \cup {p \in 0..(n - 1) : p \in WildPositions(n) \/ p = WindowStart}

\* a site mapping in insertion order: the site at 0-based position p has the
\* id p + 1 and the label p; the site at position ep has the empty id
SiteMap(n, ep) ==
  [i \in 1..n |-> [site_id |-> IF i - 1 = ep THEN EmptyId ELSE i,
                   domain_name |-> i - 1]]

\* extract_alerts(site_map) has just been called
Init ==
  /\ \E n \in MapLens : \E ep \in EmptyPositions(n) :
       /\ site_map = SiteMap(n, ep)
       /\ wild = {site_map[p + 1].site_id : p \in WildPositions(n)}
  /\ server = "alerts"
  /\ pc = "setup" /\ idx = 0 /\ sites_to_process = <<>>
  /\ results = <<>> /\ progress_data = <<>> /\ site_data = <<>>
  /\ run_ret = <<>> /\ run_err = "None"
  /\ FetchIdle /\ HistEmpty /\ args = NoParams

FetchSiteId == 7

\* fetch_paginated_api_data(params, endpoint, page_callback) has just been
\* called on its own
InitFetch ==
  /\ site_map = <<>> /\ pc = "none" /\ idx = 0 /\ sites_to_process = <<>>
  /\ results = <<>> /\ progress_data = <<>> /\ site_data = <<>>
  /\ run_ret = <<>> /\ run_err = "None"
  /\ fpc = "entry"
  /\ params \in [siteIds : {NoKey, EmptyId, FetchSiteId}, limit : {Limit},
                 cursor : {Absent, "c0"}]
  /\ current_params = NoParams /\ aliased = FALSE
  /\ endpoint \in {SitesEndpoint, AlertsEndpoint, "sites/"}
  /\ page_callback \in {"None", "probe"}
  /\ all_data = <<>> /\ cursor = None /\ page_count = 0
  /\ fret = <<>> /\ ferr = "None"
  /\ wild = {FetchSiteId}
  /\ server = "any"
  /\ HistEmpty /\ args = params

NextFetch == FetchEnter \/ FetchPage \/ FetchReturn

Next ==
  \/ Setup \/ BeginSite \/ LoopExit \/ CallFetch
  \/ FetchEnter \/ FetchPage \/ FetchReturn
  \/ ExtendResults \/ RecordCompleted \/ SiteFailed \/ Propagate \/ Advance
  \/ Interrupt \/ InterruptOutside \/ Return

Spec == Init /\ [][Next]_vars

SpecFetch == InitFetch /\ [][NextFetch]_vars

\* the steps of the program itself: the interpreter runs the one thread
\* until the function ends, and every request ends in a response or an
\* error (line 58 sets a timeout); the interrupt is the environment's and
\* need not happen
Program ==
  \/ Setup \/ BeginSite \/ LoopExit \/ CallFetch
  \/ FetchEnter \/ FetchPage \/ FetchReturn
  \/ ExtendResults \/ RecordCompleted \/ SiteFailed \/ Propagate \/ Advance
  \/ Return

\* extract_alerts called with one of the mappings that end inside the window
InitShort == Init /\ Len(site_map) < WindowEnd

SpecLive == InitShort /\ [][Next]_vars /\ WF_vars(Program)

\* extract_alerts called with a mapping that ends inside the window, against
\* a cycling server
InitCycle ==
  /\ \E n \in {m \in MapLens : m < WindowEnd} : \E ep \in EmptyPositions(n) :
       /\ site_map = SiteMap(n, ep)
       /\ wild = {site_map[p + 1].site_id : p \in WildPositions(n)}
  /\ server = "cycle"
  /\ pc = "setup" /\ idx = 0 /\ sites_to_process = <<>>
  /\ results = <<>> /\ progress_data = <<>> /\ site_data = <<>>
  /\ run_ret = <<>> /\ run_err = "None"
  /\ FetchIdle /\ HistEmpty /\ args = NoParams

\* the steps against a cycling server, none of whose answers is an error
NextCycle ==
  \/ Setup \/ BeginSite \/ LoopExit \/ CallFetch
  \/ FetchEnter \/ FetchPage \/ FetchReturn
  \/ ExtendResults \/ RecordCompleted \/ SiteFailed \/ Advance
  \/ Interrupt \/ InterruptOutside \/ Return

SpecCycle == InitCycle /\ [][NextCycle]_vars

\* ---- properties of fetch_paginated_api_data (SpecFetch) ----

RECURSIVE Flatten(_)
Flatten(ss) == IF ss = <<>> THEN <<>> ELSE Head(ss) \o Flatten(Tail(ss))

\* the items of the i-th page the server served to the current call
PageItems(i) == Items(reqBase + i, chain[i].n)

\* the i-th answer of the current call supplies a next cursor
SuppliesCursor(i) ==
  chain[i].pagination = "object" /\ chain[i].nextCursor \in Cursors

\* the i-th answer is a page in the envelope shape of the endpoint called
PageOfEndpoint(i) ==
  /\ chain[i].kind = "ok"
  /\ chain[i].shape = IF endpoint = SitesEndpoint THEN "wrapped" ELSE "list"

\* C1: a call of fetch whose parameters carry the empty site id fails with
\* ValueError before any network call: no request is issued and the page
\* callback is not invoked.
C1_EmptyIdFailsBeforeRequest ==
  (fpc # "entry" /\ params.siteIds = EmptyId) =>
    /\ fpc = "raised" /\ ferr = "ValueError"
    /\ reqLog = <<>> /\ chain = <<>>
    /\ cbLog = <<>>

C1_Witness ==
  /\ fpc = "raised" /\ params.siteIds = EmptyId
  /\ page_callback # "None"

\* C2: when the server serves N >= 1 pages of the endpoint, of which each of
\* the first N-1 supplies a next cursor and the last supplies none, and no
\* request fails, fetch issues exactly N requests and returns the
\* concatenation of the N pages' items in page order.
C2_ReturnsAllPagesInOrder ==
  LET N == Len(chain)
  IN (/\ fpc \in {"exit", "returned"}
      /\ \A i \in 1..N : PageOfEndpoint(i))
     => /\ N >= 1
        /\ \A i \in 1..(N - 1) : SuppliesCursor(i)
        /\ ~SuppliesCursor(N)
        /\ Len(reqLog) - reqBase = N
        /\ all_data = Flatten([i \in 1..N |-> PageItems(i)])
        /\ fpc = "returned" => fret = all_data

C2_Witness ==
  /\ fpc = "returned"
  /\ Len(chain) = MaxPages
  /\ \A i \in 1..Len(chain) : PageOfEndpoint(i) /\ chain[i].n >= 1
  /\ fret = Flatten([i \in 1..Len(chain) |-> PageItems(i)])

\* the answers of the current call that fetch received as a page: the body
\* parsed and the items were unwrapped
Received ==
  {i \in 1..Len(chain) :
     /\ chain[i].kind = "ok"
     /\ ~(endpoint = SitesEndpoint /\ chain[i].shape = "list")}

\* C3: with a callback supplied, onPage is invoked once per received page,
\* after the page's items were appended, with the values 1, 2, 3, ... in
\* order; the number of invocations equals the number of pages accumulated.
C3_CallbackOncePerPage ==
  (page_callback # "None" /\ fpc # "entry") =>
    /\ Len(cbLog) = Cardinality(Received)
    /\ Len(cbLog) = accPages
    /\ \A i \in 1..Len(cbLog) : cbLog[i].arg = i /\ cbLog[i].acc = i

C3_Witness ==
  /\ page_callback # "None"
  /\ fpc = "returned"
  /\ Len(cbLog) = MaxPages

\* C4: when a request of a fetch call fails in transport or comes back with
\* a non-success status, fetch raises the transport error, returns no items
\* and issues no request after the failed one.
C4_TransportErrorAborts ==
  \A i \in 1..Len(reqLog) :
    reqLog[i].kind \in {"transport", "status"} =>
      /\ i = Len(reqLog)
      /\ fpc = "raised" /\ ferr \in TransportError
      /\ fret = <<>>

C4_Witness ==
  /\ fpc = "raised" /\ ferr \in TransportError
  /\ Len(reqLog) = MaxPages
  /\ all_data # <<>>

\* ---- properties of extract_alerts (Spec) ----

\* the site ids of the mapping; the 0-based position of a site id in it
SiteIds == {site_map[i].site_id : i \in 1..Len(site_map)}
PosOf(id) == (CHOOSE i \in 1..Len(site_map) : site_map[i].site_id = id) - 1

\* the state of a site: Pending while it has no status record
StatusOf(pd, id) == IF id \in DOMAIN pd THEN pd[id].status ELSE "Pending"

\* the requests issued for a site
RequestsFor(id) == {i \in 1..Len(reqLog) : reqLog[i].siteIds = id}

\* the items of a list that were served in answer to a request for a site
ItemsOf(list, id) ==
  LET rs == RequestsFor(id)
  IN SelectSeq(list, LAMBDA it : it[1] \in rs)

\* run is over and returned its aggregate / returned it without an interrupt
Returned == pc = "done" /\ run_err = "None"
RanToEnd == Returned /\ ~signalled

\* the sites at positions 5 to 39 of the mapping
WindowIds == {site_map[p + 1].site_id : p \in {q \in 5..39 : q < Len(site_map)}}
InWindow(id) == id \in WindowIds

\* the loop is past the fetch of a site of the window
Processed(id) ==
  \/ PosOf(id) - 4 < idx
  \/ PosOf(id) - 4 = idx /\ pc = "advance"

\* C5: a site A of the window with the empty id is recorded as Failed with
\* zero items, run does not raise for it, and run goes on to fetch every
\* later site of the window; the items of the sites before and after A are
\* all in run's result.
C5_EmptyIdSiteIsolated ==
  InWindow(EmptyId) =>
    /\ run_err # "ValueError"
    /\ StatusOf(progress_data, EmptyId) \in {"Pending", "Running", "Failed"}
    /\ EmptyId \in DOMAIN progress_data =>
         /\ progress_data[EmptyId].total_records = 0
         /\ progress_data[EmptyId].pages = 0
         /\ RequestsFor(EmptyId) = {}
         /\ Processed(EmptyId) => progress_data[EmptyId].status = "Failed"
    /\ RanToEnd =>
         /\ StatusOf(progress_data, EmptyId) = "Failed"
         /\ \A id \in SiteIds \ {EmptyId} :
              InWindow(id) =>
                /\ RequestsFor(id) # {}
                /\ StatusOf(progress_data, id) = "Completed" =>
                     ItemsOf(run_ret, id) = fetched[id]

C5_Witness ==
  /\ InWindow(EmptyId) /\ RanToEnd
  /\ progress_data[EmptyId].status = "Failed"
  /\ \E a, b \in SiteIds \ {EmptyId} :
       /\ PosOf(a) < PosOf(EmptyId) /\ PosOf(EmptyId) < PosOf(b)
       /\ StatusOf(progress_data, a) = "Completed"
       /\ StatusOf(progress_data, b) = "Completed"
       /\ ItemsOf(run_ret, a) # <<>> /\ Len(ItemsOf(run_ret, b)) = MaxPages * MaxItems

IntBetweenSites == signalled /\ intAt.pc \in {"advance", "loop"}
IntAfter == IF intAt.pc = "advance" THEN intAt.idx ELSE intAt.idx - 1

\* C7: an interrupt delivered after site C completed and before site D
\* starts makes run stop at once and return, without raising, the aggregate
\* built so far: all of C's items and those of every earlier completed site,
\* nothing of D or a later site, for which no request is issued.
C7_InterruptBetweenSites ==
  (/\ IntBetweenSites /\ IntAfter >= 1
   /\ progress_data[sites_to_process[IntAfter].site_id].status = "Completed")
  => /\ pc = "done" /\ run_err = "None"
     /\ run_ret = Flatten([j \in 1..IntAfter |->
                    LET id == sites_to_process[j].site_id
                    IN IF progress_data[id].status = "Completed"
                       THEN fetched[id] ELSE <<>>])
     /\ \A j \in 1..Len(sites_to_process) :
          LET id == sites_to_process[j].site_id
          IN j > IntAfter =>
               /\ RequestsFor(id) = {}
               /\ id \notin DOMAIN progress_data
               /\ ItemsOf(run_ret, id) = <<>>

C7_Witness ==
  /\ IntBetweenSites /\ IntAfter >= 2 /\ IntAfter < Len(sites_to_process)
  /\ pc = "done"
  /\ progress_data[sites_to_process[IntAfter].site_id].status = "Completed"
  /\ Len(fetched[sites_to_process[IntAfter].site_id]) = MaxPages * MaxItems
  /\ Len(run_ret) > MaxPages * MaxItems

\* C8: requests are issued and status records created only for the sites at
\* positions 5 to 39 of the mapping; with fewer than 6 sites run issues no
\* request and returns an empty result.
C8_OnlyWindowFetched ==
  /\ {reqLog[i].siteIds : i \in 1..Len(reqLog)} \subseteq WindowIds
  /\ DOMAIN progress_data \subseteq WindowIds
  /\ Len(site_map) < 6 =>
       /\ reqLog = <<>>
       /\ pc = "done" => run_err # "None" \/ run_ret = <<>>

C8_Witness ==
  /\ RanToEnd
  /\ Len(site_map) > 40
  /\ \A id \in SiteIds : InWindow(id) <=> RequestsFor(id) # {}
  /\ \A id \in SiteIds : InWindow(id) <=> id \in DOMAIN progress_data

\* C8 again for a short mapping
C8_ShortWitness ==
  /\ RanToEnd /\ Len(site_map) = 4 /\ run_ret = <<>>

\* C9: a site is recorded as Failed only after the empty-id ValueError: a
\* Failed site has had no request issued for it and has item count 0 and
\* page count 0; any other error of a site's fetch aborts the run.
C9_FailedOnlyForEmptyId ==
  \A id \in DOMAIN progress_data :
    progress_data[id].status = "Failed" =>
      /\ RequestsFor(id) = {}
      /\ progress_data[id].total_records = 0
      /\ progress_data[id].pages = 0

\* the moves a status record may make in one step
StatusStep(pd, qd, id) ==
  LET a == StatusOf(pd, id)
      b == StatusOf(qd, id)
  IN /\ \/ a = b
        \/ a = "Pending" /\ b = "Running"
        \/ a = "Running" /\ b \in {"Completed", "Failed"}
     /\ a \in {"Completed", "Failed"} => qd[id] = pd[id]

\* C10: a site's status moves only along Pending -> Running -> Completed or
\* Pending -> Running -> Failed, and the status record of a Completed or
\* Failed site is never changed again.
C10_StatusMachine ==
  [][\A id \in SiteIds : StatusStep(progress_data, progress_data', id)]_vars

C10_Witness ==
  /\ RanToEnd
  /\ \E a, b \in DOMAIN progress_data :
       /\ progress_data[a].status = "Completed"
       /\ progress_data[a].pages = MaxPages
       /\ progress_data[b].status = "Failed"
       /\ PosOf(a) < PosOf(b)

\* the sum of the item counts recorded for the first j sites of the window
RECURSIVE SumRecorded(_)
SumRecorded(j) ==
  IF j = 0 THEN 0
  ELSE progress_data[sites_to_process[j].site_id].total_records
       + SumRecorded(j - 1)

\* what fetch returned for the j-th site of the window if the site is
\* recorded as Completed, nothing otherwise
CompletedPart(j) ==
  LET id == sites_to_process[j].site_id
  IN IF StatusOf(progress_data, id) = "Completed" THEN fetched[id] ELSE <<>>

\* C11: when run returns normally (no interrupt, no propagated error), its
\* result is the concatenation, in window order, of what fetch returned for
\* the sites recorded as Completed; Failed sites contribute no item, and the
\* length of the result is the sum of the recorded item counts.
C11_ResultIsConcatenation ==
  RanToEnd =>
    /\ run_ret = Flatten([j \in 1..Len(sites_to_process) |-> CompletedPart(j)])
    /\ \A id \in DOMAIN progress_data :
         progress_data[id].status = "Failed" => ItemsOf(run_ret, id) = <<>>
    /\ Len(run_ret) = SumRecorded(Len(sites_to_process))

C11_Witness ==
  /\ RanToEnd
  /\ \E a, b, c \in DOMAIN progress_data :
       /\ PosOf(a) < PosOf(b) /\ PosOf(b) < PosOf(c)
       /\ progress_data[a].status = "Completed" /\ fetched[a] # <<>>
       /\ progress_data[b].status = "Failed" /\ RequestsFor(b) # {}
       /\ progress_data[c].status = "Completed"
       /\ Len(fetched[c]) = MaxPages * MaxItems

\* ---- more properties of fetch_paginated_api_data (SpecFetch) ----

\* what the i-th answer of the current call holds under data.sites, and what
\* iterating its data yields
UnderDataSites(i) == IF chain[i].shape = "wrapped" THEN PageItems(i) ELSE <<>>
DataItself(i) ==
  IF chain[i].shape = "list" THEN PageItems(i) ELSE <<SitesKey>>

\* C12: fetch takes the items of a page from data.sites when the endpoint is
\* exactly "sites" and from data itself otherwise; the choice depends on the
\* endpoint alone and is the same for every page of a call.
C12_UnwrapByEndpoint ==
  fpc # "entry" =>
    all_data =
      Flatten([i \in 1..Len(chain) |->
                 IF i \notin Received THEN <<>>
                 ELSE IF endpoint = SitesEndpoint THEN UnderDataSites(i)
                 ELSE DataItself(i)])

C12_Witness ==
  /\ fpc = "returned" /\ endpoint = SitesEndpoint
  /\ Len(chain) = MaxFetchPages
  /\ \A i \in 1..Len(chain) : chain[i].shape = "wrapped" /\ chain[i].n >= 1
  /\ Len(fret) = MaxFetchPages * MaxItems

\* C12 again for another endpoint, served one page of each shape
C12_OtherWitness ==
  /\ fpc = "returned" /\ endpoint # SitesEndpoint
  /\ \E i, j \in 1..Len(chain) :
       /\ chain[i].shape = "wrapped" /\ chain[i].n >= 1
       /\ chain[j].shape = "list" /\ chain[j].n >= 1

\* C13: in a call whose parameters carry no cursor, the first request
\* carries no cursor and the (k+1)-th request carries exactly the next cursor
\* of page k; every request carries the caller's other parameters unchanged,
\* and after the call the caller's mapping differs from what was passed at
\* most in its cursor.
C13_CursorChaining ==
  args.cursor = Absent =>
    /\ \A i \in 1..Len(reqLog) :
         /\ reqLog[i].siteIds = args.siteIds
         /\ reqLog[i].limit = args.limit
         /\ i = 1 => reqLog[i].cursor = Absent
         /\ i > 1 => /\ SuppliesCursor(i - 1)
                     /\ reqLog[i].cursor = chain[i - 1].nextCursor
    /\ params.siteIds = args.siteIds
    /\ params.limit = args.limit

C13_Witness ==
  /\ args.cursor = Absent /\ fpc = "returned"
  /\ Len(reqLog) = MaxFetchPages
  /\ chain[1].nextCursor # chain[2].nextCursor
  /\ reqLog[MaxFetchPages].cursor = chain[MaxFetchPages - 1].nextCursor
  /\ params # args

\* ---- more properties of extract_alerts (Spec) ----

\* C14: an interrupt is observed only between site iterations, never in the
\* middle of a fetch: once the fetch of a site has started, the site reaches
\* Completed or Failed before an interrupt can stop the run, and no site is
\* left Running when run returns because of an interrupt.
C14_InterruptOnlyBetweenSites ==
  (signalled /\ Returned) =>
    /\ intAt.pc \in {"loop", "advance"}
    /\ intAt.fpc = "idle"
    /\ \A id \in DOMAIN progress_data : progress_data[id].status # "Running"

\* the loop is at a site of the window, which has its status record
AtSite ==
  /\ idx \in 1..Len(sites_to_process)
  /\ sites_to_process[idx].site_id \in DOMAIN progress_data

\* C15: when a site becomes Completed its recorded item count is the number
\* of items fetch returned for it and its recorded page count the number of
\* HTTP requests fetch made for it; while a site is Running its page count
\* is the number of pages received for it so far.
C15_RecordMatchesFetch ==
  AtSite =>
    LET id == sites_to_process[idx].site_id
        rec == progress_data[id]
        rs == RequestsFor(id)
    IN /\ rec.status = "Completed" =>
            /\ rec.total_records = Len(fetched[id])
            /\ rec.pages = Cardinality(rs)
       /\ rec.status = "Running" =>
            rec.pages = Cardinality({i \in rs : reqLog[i].kind = "ok"})

C15_Witness ==
  /\ AtSite /\ idx >= 2 /\ pc = "advance" /\ results # site_data
  /\ LET rec == progress_data[sites_to_process[idx].site_id]
     IN /\ rec.status = "Completed"
        /\ rec.pages = MaxPages
        /\ rec.total_records = MaxPages * MaxItems

\* C15 again for a site that is Running with a page received
C15_RunningWitness ==
  /\ AtSite /\ pc = "infetch" /\ fpc = "request"
  /\ LET rec == progress_data[sites_to_process[idx].site_id]
     IN rec.status = "Running" /\ rec.pages = MaxPages - 1

\* the sites of the window before the site the loop is at are Completed or
\* Failed, those after it are Pending, and no other site is Running
OneAtATime(pd, at) ==
  /\ \A j \in 1..Len(sites_to_process) :
       LET st == StatusOf(pd, sites_to_process[j].site_id)
       IN /\ j < at => st \in {"Completed", "Failed"}
          /\ j > at => st = "Pending"
          /\ st = "Running" => j = at
  /\ Cardinality({id \in DOMAIN pd : pd[id].status = "Running"}) <= 1

\* a request issued in this step is for the site that is Running
RequestForRunning ==
  reqLog' # reqLog =>
    /\ Len(reqLog') = Len(reqLog) + 1
    /\ LET q == reqLog'[Len(reqLog')]
       IN /\ StatusOf(progress_data, q.siteIds) = "Running"
          /\ StatusOf(progress_data', q.siteIds) = "Running"

\* C16: sites are processed one at a time in window order: at most one site
\* is Running, every site of the window before it is Completed or Failed,
\* every site after it is Pending, and a request is only issued for the
\* site that is Running.
C16_OneSiteAtATime ==
  [][OneAtATime(progress_data', idx') /\ RequestForRunning]_vars

C16_Witness ==
  /\ pc = "infetch" /\ idx >= 2 /\ idx < Len(sites_to_process)
  /\ progress_data[sites_to_process[idx].site_id].status = "Running"
  /\ progress_data[sites_to_process[idx].site_id].pages >= 1
  /\ \E j \in 1..(idx - 1) :
       progress_data[sites_to_process[j].site_id].status = "Failed"
  /\ \E j \in 1..(idx - 1) :
       progress_data[sites_to_process[j].site_id].status = "Completed"

\* ---- termination (SpecLive) ----

\* C17: against a server whose cursor chain is finite and that answers
\* every request, a call of fetch ends after finitely many requests, and run
\* over a finite site mapping ends.
C17_Terminates ==
  /\ <>(pc = "done")
  /\ (fpc = "entry") ~> (fpc \in {"returned", "raised", "idle"})

C17_Witness ==
  /\ RanToEnd
  /\ Len(sites_to_process) > NWild
  /\ \E id \in DOMAIN progress_data :
       /\ progress_data[id].status = "Completed"
       /\ Cardinality(RequestsFor(id)) = MaxPages

\* ---- a cursor chain that cycles (SpecCycle) ----

\* the fetch of a site is under way
Fetching(id) == pc = "infetch" /\ fpc # "entry" /\ params.siteIds = id

\* C18: there is no protection against a cycle: when the server hands out
\* again a cursor it handed out before, so that the chain never reaches a
\* page without a next cursor, and no request fails, fetch never returns: it
\* keeps issuing requests and appending items, and the site being fetched
\* stays Running.
C18_CycleNeverReturns ==
  \A id \in wild \ {EmptyId} :
    /\ id \notin DOMAIN fetched
    /\ StatusOf(progress_data, id) \in {"Pending", "Running"}
    /\ Fetching(id) =>
         /\ fpc = "request"
         /\ progress_data[id].status = "Running"
         /\ page_count = Len(reqLog) - reqBase
         /\ progress_data[id].pages = page_count
         /\ all_data = Flatten([i \in 1..Len(chain) |-> PageItems(i)])

C18_Witness ==
  /\ \E id \in wild \ {EmptyId} : Fetching(id)
  /\ Len(reqLog) - reqBase = MaxRequests
  /\ reqLog[reqBase + 2].cursor = reqLog[reqBase + 4].cursor
  /\ Len(all_data) = MaxRequests * MaxItems
  /\ fpc = "request"

\* ---- the aggregate and the requests of a run (Spec) ----

\* the aggregate: what run returned once it has returned, the list it is
\* building before
Aggregate == IF Returned THEN run_ret ELSE results

\* what fetch returned for the j-th site of the window, nothing if it has
\* not returned for it
FetchedPart(j) ==
  LET id == sites_to_process[j].site_id
  IN IF id \in DOMAIN fetched THEN fetched[id] ELSE <<>>

\* C19: whatever ends the run (an interrupt in the middle of a fetch and a
\* propagated error included), the aggregate holds of each site either all
\* the items of its completed fetch or none: the items of the pages received
\* for a fetch that did not finish are never in it.
C19_AllOrNothing ==
  /\ Aggregate =
       Flatten([j \in 1..Len(sites_to_process) |-> FetchedPart(j)])
  /\ \A k \in 1..Len(Aggregate) :
       reqLog[Aggregate[k][1]].siteIds \in DOMAIN fetched
  /\ pc = "infetch" =>
       \A k \in 1..Len(Aggregate) : Aggregate[k][1] <= reqBase

C19_Witness ==
  /\ Returned /\ signalled
  /\ intAt.pc = "infetch" /\ intAt.fpc = "request" /\ idx >= 2
  /\ progress_data[sites_to_process[idx].site_id].pages = MaxPages - 1
  /\ sites_to_process[idx].site_id \notin DOMAIN fetched
  /\ run_ret # <<>>

\* C19 again for a run ended by a propagated error after a page was received
C19_ErrorWitness ==
  /\ pc = "done" /\ run_err \in TransportError /\ idx >= 2
  /\ progress_data[sites_to_process[idx].site_id].pages = MaxPages - 1
  /\ results # <<>>

\* C19 again for a fetch under way that has received items
C19_PartialWitness ==
  /\ pc = "infetch" /\ fpc = "request" /\ all_data # <<>> /\ results # <<>>

\* the i-th request of the run is the first one for its site
FirstForSite(i) == i = 1 \/ reqLog[i - 1].siteIds # reqLog[i].siteIds

\* C20: the requests of a run never mix sites: every request carries the id
\* of the site that is Running and the limit 1000; the first request for a
\* site carries no cursor, and a cursor sent for a site is the one returned
\* by the page just before it of the same site, never one of another site,
\* although fetch writes the cursor into the mapping it was given.
C20_RequestsNeverMixSites ==
  /\ \A i \in 1..Len(reqLog) :
       /\ reqLog[i].limit = Limit
       /\ reqLog[i].endpoint = AlertsEndpoint
       /\ FirstForSite(i) => reqLog[i].cursor = Absent
       /\ ~FirstForSite(i) =>
            /\ reqLog[i - 1].next \in Cursors
            /\ reqLog[i].cursor = reqLog[i - 1].next
  /\ pc = "infetch" =>
       \A i \in (reqBase + 1)..Len(reqLog) :
         /\ reqLog[i].siteIds = sites_to_process[idx].site_id
         /\ progress_data[reqLog[i].siteIds].status = "Running"

C20_Witness ==
  /\ pc = "infetch" /\ fpc = "request" /\ idx >= 2
  /\ reqBase >= 1 /\ Len(reqLog) = reqBase + 1
  /\ reqLog[reqBase + 1].cursor = Absent
  /\ reqLog[reqBase].cursor \in Cursors
  /\ params.cursor \in Cursors

====
